---- MODULE Spec2Model ----
(***************************************************************************)
(* A model of parser.py: the Message field extractors (pure functions of   *)
(* one block of text) and main, which splits raw.txt into blocks and       *)
(* prints one JSON record per block.                                       *)
(*                                                                         *)
(* Text is modelled by TLA+ strings; TLC evaluates Len, SubSeq and \o on   *)
(* them, so every extractor works on the characters of the block as the    *)
(* Python code does.                                                       *)
(***************************************************************************)
EXTENDS Integers, Sequences, FiniteSets, TLC

VARIABLES
    archive,    \* the text of raw.txt
    raws,       \* main's list of blocks (after split, strip and filter)
    idx,        \* position of main's for loop in raws (1-based)
    out,        \* the lines printed so far, each the dict that was dumped
    pc,         \* "start" | "loop" | "done" | "failed"
    error,      \* the exception that ended the run ("" while there is none)
    COMPANIES,  \* the module-level set of company names
    hashOrder,  \* the iteration order of COMPANIES in this process
    now,        \* the wall clock: [year, month]
    run,        \* which process run over the archive this is
    prevOut     \* what the previous process run printed

vars == <<archive, raws, idx, out, pc, error, COMPANIES, hashOrder, now, run, prevOut>>

----------------------------------------------------------------------------
(* Characters and strings                                                  *)

\* the character s[i-1] of Python, "" where the string has none
Ch(s, i) == IF 1 <= i /\ i <= Len(s) THEN SubSeq(s, i, i) ELSE ""

\* the slice s[a-1:b] of Python: cut to the string, never out of range
Slice(s, a, b) ==
    LET lo == IF a < 1 THEN 1 ELSE a
        hi == IF b > Len(s) THEN Len(s) ELSE b
    IN  IF lo > hi THEN "" ELSE SubSeq(s, lo, hi)

\* Body applied to the value of e, which is computed once (a bound variable
\* holds a value; an operator argument or a LET definition holds an
\* expression that is evaluated again at every use)
With(e, Body(_)) == CHOOSE r \in {Body(x) : x \in {e}} : TRUE

\* Python's `sub in s`
In(sub, s) ==
    \E i \in 1..(Len(s) - Len(sub) + 1) : SubSeq(s, i, i + Len(sub) - 1) = sub

\* the characters of s; a string that occurs in s starts with one of them
Chars(s) == {Ch(s, i) : i \in 1..Len(s)}

\* the lowest index from i on at which sub occurs in s, 0 when there is none
FindFrom(s, sub, i) ==
    LET at == {k \in i..(Len(s) - Len(sub) + 1) : SubSeq(s, k, k + Len(sub) - 1) = sub}
    IN  IF at = {} THEN 0 ELSE CHOOSE k \in at : \A j \in at : k <= j

\* the lowest index at which sub occurs in s, 0 when it does not (str.find + 1)
Find(s, sub) == FindFrom(s, sub, 1)

UpperAlpha == "ABCDEFGHIJKLMNOPQRSTUVWXYZ"
LowerAlpha == "abcdefghijklmnopqrstuvwxyz"
Digits == "0123456789"

UpperSet == {Ch(UpperAlpha, i) : i \in 1..Len(UpperAlpha)}
LowerSet == {Ch(LowerAlpha, i) : i \in 1..Len(LowerAlpha)}
DigitSet == {Ch(Digits, i) : i \in 1..Len(Digits)}

ToLower == [c \in UpperSet |-> Ch(LowerAlpha, Find(UpperAlpha, c))]
ToUpper == [c \in LowerSet |-> Ch(UpperAlpha, Find(LowerAlpha, c))]
DigitValue == [c \in DigitSet |-> Find(Digits, c) - 1]

IsUpper(c) == c \in UpperSet
IsLower(c) == c \in LowerSet
IsLetter(c) == IsUpper(c) \/ IsLower(c)
IsDigit(c) == c \in DigitSet

AllDigits(s) == \A i \in 1..Len(s) : IsDigit(Ch(s, i))

LowerCh(c) == IF IsUpper(c) THEN ToLower[c] ELSE c
UpperCh(c) == IF IsLower(c) THEN ToUpper[c] ELSE c

RECURSIVE LowerFrom(_, _)
LowerFrom(s, i) ==
    IF i > Len(s) THEN "" ELSE LowerCh(Ch(s, i)) \o LowerFrom(s, i + 1)

\* str.lower()
lower(s) == LowerFrom(s, 1)

\* str.capitalize() of a string of one character
capitalize(c) == UpperCh(c)

RECURSIVE IntUpTo(_, _)
IntUpTo(s, n) ==
    IF n = 0 THEN 0 ELSE 10 * IntUpTo(s, n - 1) + DigitValue[Ch(s, n)]

\* int(s) of a string of decimal digits
int(s) == IntUpTo(s, Len(s))

\* the characters str.strip() removes
Whitespace == {" ", "\t", "\n", "\r", "\f"}

\* str.strip(): from the first to the last character that is not whitespace
strip(s) ==
    LET keep == {i \in 1..Len(s) : Ch(s, i) \notin Whitespace}
    IN  IF keep = {} THEN ""
        ELSE SubSeq(s, CHOOSE i \in keep : \A j \in keep : i <= j,
                       CHOOSE i \in keep : \A j \in keep : j <= i)

RECURSIVE SplitFrom(_, _, _)
SplitFrom(s, sep, i) ==
    With(FindFrom(s, sep, i), LAMBDA k :
        IF k = 0 THEN <<Slice(s, i, Len(s))>>
        ELSE <<Slice(s, i, k - 1)>> \o SplitFrom(s, sep, k + Len(sep)))

\* str.split(sep): cut at every occurrence of sep, found left to right
split(s, sep) == SplitFrom(s, sep, 1)

\* the line boundaries of str.splitlines() that a TLA+ string can hold
LineBoundaries == {"\n", "\r", "\f"}

\* the first line boundary of s from i on, 0 when there is none
BoundaryFrom(s, i) ==
    LET at == {k \in i..Len(s) : Ch(s, k) \in LineBoundaries}
    IN  IF at = {} THEN 0 ELSE CHOOSE k \in at : \A j \in at : k <= j

RECURSIVE LinesFrom(_, _)
LinesFrom(s, i) ==
    IF i > Len(s) THEN <<>>
    ELSE With(BoundaryFrom(s, i), LAMBDA k :
            IF k = 0 THEN <<Slice(s, i, Len(s))>>
            ELSE <<Slice(s, i, k - 1)>>
                 \o LinesFrom(s, IF Ch(s, k) = "\r" /\ Ch(s, k + 1) = "\n"
                                 THEN k + 2 ELSE k + 1))

\* str.splitlines(): "\r\n" is one boundary, and no empty last line
splitlines(s) == LinesFrom(s, 1)

\* str.removesuffix(suffix)
removesuffix(s, suffix) ==
    IF Len(s) >= Len(suffix) /\ SubSeq(s, Len(s) - Len(suffix) + 1, Len(s)) = suffix
    THEN SubSeq(s, 1, Len(s) - Len(suffix))
    ELSE s

Pad2(n) == Ch(Digits, ((n \div 10) % 10) + 1) \o Ch(Digits, (n % 10) + 1)
Pad4(n) == Pad2(n \div 100) \o Pad2(n % 100)

\* what an operation of the code gives: a value, or the exception it raises
Ok(v) == [exc |-> "", val |-> v]
Raise(e) == [exc |-> e, val |-> ""]

----------------------------------------------------------------------------
(* The literals of the code                                                *)

\* COMPANIES, in the order the set literal is written
CompanyList ==
    << "@fb.com", "Amazon", "Ariga", "Biller", "Bitpanda", "BOTS",
       "Capgemini Client", "Capri Partners", "Crowdstrike", "DCVTechnologies",
       "Elastic", "Enreach", "Flexport", "FLYR Labs", "Form3",
       "GeekSoft Consulting", "HCL Technologies", "HelloFresh", "InDebted",
       "IndyKite", "Lightspeed", "M2A Media", "Makersite", "Marko", "Mollie",
       "Nebius", "NetData", "Orbis", "planet.com", "Pollen", "PostNL",
       "Prodapt", "Seamly", "Sendcloud", "Sentinels", "Smart.pr", "Smiler",
       "TCS", "Tessian", "v7labs", "viafintech", "vpTech" >>

Nickname == "Gram"
FirstName == "Nikita"
Canary == "OR 1 --"
SentSuffix == " sent the following messages at"
TitleMarker == "· "
Delimiter == "\n\n\n\n\n"
DateFormat == "%Y-%m-%d"
TimeFormatMinutes == "%H:%M"
TimeFormat == "%H:%I"

\* characters of emoji.EMOJI_DATA that occur in the modelled archives
EMOJI_DATA == {"©", "®", "↔", "▶"}

----------------------------------------------------------------------------
(* Message: the boolean heuristics                                         *)

\* has_name that looks for the first name only
has_name_first_name_only(raw) == In(FirstName, raw)

has_name(raw) ==
    IF In(Nickname, raw) THEN TRUE ELSE In(FirstName, raw)

read_cv(raw) == In(Nickname, raw)

\* the rule as the specification words it: nickname and canary together
\* count as autogenerated
autogenerated_canary_on_nickname(raw) ==
    IF ~In(Nickname, raw) THEN TRUE ELSE In(Canary, raw)

autogenerated(raw) ==
    IF In(Nickname, raw) THEN FALSE
    ELSE IF ~In(FirstName, raw) THEN TRUE
    ELSE In(Canary, raw)

\* the markers tested in the opposite order
sender_pronouns_he_first(raw) ==
    With(lower(raw), LAMBDA low :
        IF In("he/", low) THEN "he"
        ELSE IF In("she/", low) THEN "she"
        ELSE IF In("they/", low) THEN "they"
        ELSE "")

sender_pronouns(raw) ==
    With(lower(raw), LAMBDA low :
        IF In("she/", low) THEN "she"
        ELSE IF In("he/", low) THEN "he"
        ELSE IF In("they/", low) THEN "they"
        ELSE "")

has_emoji(raw) == \E i \in 1..Len(raw) : Ch(raw, i) \in EMOJI_DATA

\* rex = '.+@.+\.[a-z]{2,3}', rex.search: '.' matches anything but "\n", so
\* the match lies within one line: a character, '@', a character or more,
\* '.', two lower-case letters
has_email(raw) ==
    \E a \in 2..Len(raw) :
        /\ Ch(raw, a) = "@"
        /\ Ch(raw, a - 1) # "\n"
        /\ \E d \in (a + 2)..(Len(raw) - 2) :
              /\ Ch(raw, d) = "."
              /\ \A j \in (a + 1)..(d - 1) : Ch(raw, j) # "\n"
              /\ IsLower(Ch(raw, d + 1))
              /\ IsLower(Ch(raw, d + 2))

has_url(raw) == In("https://", raw) \/ In("www.", raw)

python(raw) == With(lower(raw), LAMBDA low : In("python", low))

\* the line after the first line that holds the marker
sender_title(raw) ==
    With(splitlines(raw), LAMBDA lines :
        LET dots == {i \in 1..Len(lines) : In(TitleMarker, lines[i])}
            d == CHOOSE i \in dots : \A j \in dots : i <= j
        IN  IF dots = {} THEN ""
            ELSE IF d < Len(lines) THEN lines[d + 1] ELSE "")

\* `for company in COMPANIES`: the first company, in the iteration order of
\* the set in this process, that occurs in the block
company(raw, order) ==
    With(Chars(raw), LAMBDA cs :
        With({i \in 1..Len(order) : Ch(order[i], 1) \in cs /\ In(order[i], raw)},
             LAMBDA hits :
                IF hits = {} THEN ""
                ELSE order[CHOOSE i \in hits : \A j \in hits : i <= j]))

----------------------------------------------------------------------------
(* Message: the header line                                                *)

\* '\d{1,2}:\d{1,2} [AP]M' as a whole string
IsTimeToken(t) ==
    \E hl \in 1..2, ml \in 1..2 :
        /\ Len(t) = hl + ml + 4
        /\ AllDigits(Slice(t, 1, hl))
        /\ Ch(t, hl + 1) = ":"
        /\ AllDigits(Slice(t, hl + 2, hl + 1 + ml))
        /\ Ch(t, hl + ml + 2) = " "
        /\ Ch(t, hl + ml + 3) \in {"A", "P"}
        /\ Ch(t, hl + ml + 4) = "M"

\* rex = '(.+)  ?(\d{1,2}:\d{1,2} [AP]M)': every way rex.fullmatch can cut
\* the line into n characters of name, sp spaces and a time token
NameTimeCuts(line) ==
    {c \in (1..Len(line)) \X (1..2) :
        /\ c[1] + c[2] < Len(line)
        /\ \A j \in (c[1] + 1)..(c[1] + c[2]) : Ch(line, j) = " "
        /\ \E t \in {Slice(line, c[1] + c[2] + 1, Len(line))} : IsTimeToken(t)
        /\ \A j \in 1..c[1] : Ch(line, j) # "\n"}

\* the cut the regex engine takes: '.+' is greedy, so the longest name
NameTimeMatch(line) ==
    With(NameTimeCuts(line), LAMBDA cuts :
        With(CHOOSE x \in cuts : \A y \in cuts : y[1] <= x[1], LAMBDA c :
            << Slice(line, 1, c[1]), Slice(line, c[1] + c[2] + 1, Len(line)) >>))

\* the first line the regex matches as a whole, or LookupError
_name_time(raw) ==
    With(splitlines(raw), LAMBDA lines :
        With({i \in 1..Len(lines) : NameTimeCuts(lines[i]) # {}}, LAMBDA hits :
            IF hits = {} THEN Raise("LookupError")
            ELSE With(lines[CHOOSE i \in hits : \A j \in hits : i <= j],
                      LAMBDA line : Ok(NameTimeMatch(line)))))

\* sender_name without its second assertion
\* the name text cut at the first '(', stripped, without the suffix
CleanName(text) ==
    With(split(text, "(")[1], LAMBDA head :
        With(strip(head), LAMBDA name : removesuffix(name, SentSuffix)))

\* sender_name without its second assertion
sender_name_unchecked_case(raw) ==
    With(_name_time(raw), LAMBDA nt :
        IF nt.exc # "" THEN nt
        ELSE With(CleanName(nt.val[1]), LAMBDA name :
                IF name = "" THEN Raise("AssertionError") ELSE Ok(name)))

sender_name(raw) ==
    With(_name_time(raw), LAMBDA nt :
        IF nt.exc # "" THEN nt
        ELSE With(CleanName(nt.val[1]), LAMBDA name :
                IF name = "" THEN Raise("AssertionError")
                ELSE IF Ch(name, 1) # capitalize(Ch(name, 1))
                     THEN Raise("AssertionError")
                     ELSE Ok(name)))

----------------------------------------------------------------------------
(* dateutil.parser.parse, on the tokens the two regular expressions pass   *)

\* a datetime.time is printed by strftime as of 1900-01-01
TimeValue(h, m) == [year |-> 1900, month |-> 1, day |-> 1, hour |-> h, minute |-> m]
DateValue(y, m, d) == [year |-> y, month |-> m, day |-> d, hour |-> 0, minute |-> 0]

\* a token 'h:m AM' or 'h:m PM': the hour is one of a 12-hour clock (0 to
\* 12), the minute one of an hour, or the parser raises
parse_time(token) ==
    With(Find(token, ":"), LAMBDA colon :
        With(<< int(Slice(token, 1, colon - 1)),
                int(Slice(token, colon + 1, Len(token) - 3)),
                Ch(token, Len(token) - 1) = "P" >>, LAMBDA hmp :
            LET h == hmp[1]
                m == hmp[2]
                pm == hmp[3]
            IN  IF h > 12 \/ m > 59 THEN Raise("ParserError")
                ELSE IF pm /\ h < 12 THEN Ok(TimeValue(h + 12, m))
                ELSE IF ~pm /\ h = 12 THEN Ok(TimeValue(0, m))
                ELSE Ok(TimeValue(h, m))))

Months == <<"jan", "feb", "mar", "apr", "may", "jun",
            "jul", "aug", "sep", "oct", "nov", "dec">>
Weekdays == {"mon", "tue", "wed", "thu", "fri", "sat", "sun"}

IsLeap(y) == (y % 4 = 0 /\ y % 100 # 0) \/ y % 400 = 0

DaysIn(y, m) ==
    IF m = 2 THEN (IF IsLeap(y) THEN 29 ELSE 28)
    ELSE IF m \in {4, 6, 9, 11} THEN 30 ELSE 31

\* a token '\nWww d[d][, yyyy]' with d[d] at most 31: a month name gives the
\* month, a weekday name leaves the month of today, a missing year is the
\* year of today; any other word, or a day the month has not, raises
parse_date(token, today) ==
    With(lower(Slice(token, 2, 4)), LAMBDA word :
        With(IF IsDigit(Ch(token, 7)) THEN 2 ELSE 1, LAMBDA dl :
            With(<< int(Slice(token, 6, 5 + dl)),
                    IF Len(token) > 5 + dl THEN int(Slice(token, 8 + dl, 11 + dl))
                    ELSE today.year,
                    {i \in 1..12 : Months[i] = word} >>, LAMBDA dym :
                LET d == dym[1]
                    y == dym[2]
                    mi == dym[3]
                    m == IF mi # {} THEN CHOOSE i \in mi : TRUE ELSE today.month
                IN  IF mi = {} /\ word \notin Weekdays THEN Raise("ParserError")
                    ELSE IF y < 1 \/ d < 1 \/ d > DaysIn(y, m) THEN Raise("ParserError")
                    ELSE Ok(DateValue(y, m, d)))))

\* one directive of strftime
Directive(v, c) ==
    CASE c = "Y" -> Pad4(v.year)
      [] c = "m" -> Pad2(v.month)
      [] c = "d" -> Pad2(v.day)
      [] c = "H" -> Pad2(v.hour)
      [] c = "I" -> Pad2(IF v.hour % 12 = 0 THEN 12 ELSE v.hour % 12)
      [] c = "M" -> Pad2(v.minute)
      [] OTHER -> "%" \o c

RECURSIVE FormatFrom(_, _, _)
FormatFrom(v, fmt, i) ==
    IF i > Len(fmt) THEN ""
    ELSE IF Ch(fmt, i) = "%" /\ i < Len(fmt)
         THEN Directive(v, Ch(fmt, i + 1)) \o FormatFrom(v, fmt, i + 2)
         ELSE Ch(fmt, i) \o FormatFrom(v, fmt, i + 1)

\* date.strftime(fmt), time.strftime(fmt)
strftime(v, fmt) == FormatFrom(v, fmt, 1)

----------------------------------------------------------------------------
(* Message: time, salary, date                                             *)

time(raw) ==
    With(_name_time(raw), LAMBDA nt :
        IF nt.exc # "" THEN nt ELSE parse_time(nt.val[2]))

\* the length of '(k|K|\,000)' at position q, 0 when it is not there
SalarySuffix(s, q) ==
    IF Ch(s, q) \in {"k", "K"} THEN 1
    ELSE IF Slice(s, q, q + 3) = ",000" THEN 4
    ELSE 0

\* '(\d{2,3})(k|K|\,000)' at position p: three digits are tried before two;
\* gives the digits matched and the position after the match
SalaryDigitsAt(s, p) ==
    IF Len(Slice(s, p, p + 2)) = 3 /\ AllDigits(Slice(s, p, p + 2))
         /\ SalarySuffix(s, p + 3) > 0
    THEN [ok |-> TRUE, num |-> Slice(s, p, p + 2), end |-> p + 3 + SalarySuffix(s, p + 3)]
    ELSE IF Len(Slice(s, p, p + 1)) = 2 /\ AllDigits(Slice(s, p, p + 1))
              /\ SalarySuffix(s, p + 2) > 0
    THEN [ok |-> TRUE, num |-> Slice(s, p, p + 1), end |-> p + 2 + SalarySuffix(s, p + 2)]
    ELSE [ok |-> FALSE, num |-> "", end |-> p]

\* rex = '[€£]?(\d{2,3})(k|K|\,000)' at position i: the currency sign is
\* taken when it is there, and given back when the rest does not follow
SalaryMatchAt(s, i) ==
    IF Ch(s, i) \in {"€", "£"} /\ SalaryDigitsAt(s, i + 1).ok
    THEN SalaryDigitsAt(s, i + 1)
    ELSE SalaryDigitsAt(s, i)

\* the first position from i on at which rex matches, 0 when there is none
SalaryNext(s, i) ==
    LET at == {k \in i..Len(s) : SalaryMatchAt(s, k).ok}
    IN  IF at = {} THEN 0 ELSE CHOOSE k \in at : \A j \in at : k <= j

\* group(1) of every match of rex.finditer, from position i on: matches are
\* found left to right and do not overlap
RECURSIVE SalaryMatches(_, _)
SalaryMatches(s, i) ==
    With(SalaryNext(s, i), LAMBDA k :
        IF k = 0 THEN <<>>
        ELSE With(SalaryMatchAt(s, k), LAMBDA m :
                <<m.num>> \o SalaryMatches(s, m.end)))

\* the pair in increasing order of the two numbers
salary_sorted(raw) ==
    With(SalaryMatches(raw, 1), LAMBDA matches :
        IF matches = <<>> THEN <<"", "">>
        ELSE IF Cardinality({matches[i] : i \in 1..Len(matches)}) = 1
             THEN <<"", matches[1]>>
             ELSE IF int(matches[1]) <= int(matches[2])
                  THEN <<matches[1], matches[2]>>
                  ELSE <<matches[2], matches[1]>>)

salary(raw) ==
    With(SalaryMatches(raw, 1), LAMBDA matches :
        IF matches = <<>> THEN <<"", "">>
        ELSE IF Cardinality({matches[i] : i \in 1..Len(matches)}) = 1
             THEN <<"", matches[1]>>
             ELSE SubSeq(matches, 1, 2))

\* rex = '\n[A-Z]{1}[A-Za-z]{2} \d{1,2}(, \d{4})?' at position i: the text
\* matched (two digits and the year are taken when they are there), ""
\* when there is no match at i
DateMatchAt(s, i) ==
    IF /\ Ch(s, i) = "\n"
       /\ IsUpper(Ch(s, i + 1))
       /\ IsLetter(Ch(s, i + 2))
       /\ IsLetter(Ch(s, i + 3))
       /\ Ch(s, i + 4) = " "
       /\ IsDigit(Ch(s, i + 5))
    THEN With(IF IsDigit(Ch(s, i + 6)) THEN i + 6 ELSE i + 5, LAMBDA e :
            IF /\ Slice(s, e + 1, e + 2) = ", "
               /\ Len(Slice(s, e + 3, e + 6)) = 4
               /\ \A j \in (e + 3)..(e + 6) : IsDigit(Ch(s, j))
            THEN Slice(s, i, e + 6)
            ELSE Slice(s, i, e))
    ELSE ""

\* match.group(0) of rex.search: the leftmost match, "" when there is none
DateSearch(s) ==
    With({i \in 1..Len(s) : DateMatchAt(s, i) # ""}, LAMBDA hits :
        IF hits = {} THEN ""
        ELSE DateMatchAt(s, CHOOSE i \in hits : \A j \in hits : i <= j))

\* date without its assertion: no date token gives today
date_defaulting(raw, today) ==
    With(DateSearch(raw), LAMBDA match :
        IF match = "" THEN Ok(DateValue(today.year, today.month, 1))
        ELSE parse_date(match, today))

\* `assert match, self.sender_name`: the message is evaluated when the
\* assertion fails, and may itself raise
date(raw, today) ==
    With(DateSearch(raw), LAMBDA match :
        IF match = ""
        THEN With(sender_name(raw), LAMBDA name :
                IF name.exc # "" THEN name ELSE Raise("AssertionError"))
        ELSE parse_date(match, today))

----------------------------------------------------------------------------
(* Message.as_dict                                                         *)

Keys ==
    {"sender_name", "sender_title", "sender_pronouns", "has_name", "read_cv",
     "autogenerated", "salary_low", "salary_high", "has_emoji", "has_email",
     "has_url", "company", "python", "chars", "date", "time"}

\* the keyword arguments are evaluated in the order written: the first
\* property that raises ends the call
as_dict(raw, order, today) ==
    With(sender_name(raw), LAMBDA name :
        IF name.exc # "" THEN Raise(name.exc)
        ELSE With(date(raw, today), LAMBDA day :
            IF day.exc # "" THEN Raise(day.exc)
            ELSE With(time(raw), LAMBDA clock :
                IF clock.exc # "" THEN Raise(clock.exc)
                ELSE With(salary(raw), LAMBDA pay :
                    Ok([sender_name |-> name.val,
                        sender_title |-> sender_title(raw),
                        sender_pronouns |-> sender_pronouns(raw),
                        has_name |-> has_name(raw),
                        read_cv |-> read_cv(raw),
                        autogenerated |-> autogenerated(raw),
                        salary_low |-> pay[1],
                        salary_high |-> pay[2],
                        has_emoji |-> has_emoji(raw),
                        has_email |-> has_email(raw),
                        has_url |-> has_url(raw),
                        company |-> company(raw, order),
                        python |-> python(raw),
                        chars |-> Len(raw),
                        date |-> strftime(day.val, DateFormat),
                        time |-> strftime(clock.val, TimeFormat)])))))

----------------------------------------------------------------------------
(* The archives the model is run on                                        *)

MaxFrags == 2       \* body lines of a block of the one-block archives
MaxBlocks == 2      \* blocks of an archive of several blocks
MaxTicks == 1       \* year changes of the wall clock
MaxRuns == 2        \* process runs over the same archive
StartYear == 2024   \* the year of the wall clock at the first run

\* the first lines of a block: a header line, then a date line
Heads ==
    << "Al Bo 3:45 PM\nJan 5",
       "3M HR  12:05 AM\nDec 31, 2023",
       "Eve (She/Her) sent the following messages at 9:30 PM\nMon 12" >>

\* first lines as_dict raises on: a name in lower case, no name, an hour the
\* parser rejects, no header line, no date token, a date the parser rejects
BrokenHeads ==
    << "al 3:45 PM\nJan 5",
       "(he/him) 1:05 PM\nJan 5",
       "Al 13:00 PM\nJan 5",
       "Hello Al\nJan 5",
       "Al Bo 3:45 PM\nJanuary 5th",
       "Al Bo 3:45 PM\nThe 12" >>

\* the lines a body is made of, in the order they are put in a block
Fragments ==
    << "Hi Gram",
       "Dear Nikita",
       "OR 1 --",
       "She/Her",
       "he/him",
       "(They/them)",
       "€120,000",
       "80k-80K",
       "Amazon",
       "Elastic",
       "Bo · 2nd a@b.io www.x Python ©" >>

\* the fragments picked by S, each on a line of its own, in list order
RECURSIVE BodyFrom(_, _)
BodyFrom(S, i) ==
    IF i > Len(Fragments) THEN ""
    ELSE (IF i \in S THEN "\n" \o Fragments[i] ELSE "") \o BodyFrom(S, i + 1)

OneBlocks ==
    {Heads[h] \o BodyFrom(S, 1) :
        h \in 1..Len(Heads),
        S \in {T \in SUBSET (1..Len(Fragments)) : Cardinality(T) <= MaxFrags}}
    \cup
    {BrokenHeads[h] \o BodyFrom(S, 1) :
        h \in 1..Len(BrokenHeads),
        S \in {T \in SUBSET (1..Len(Fragments)) : Cardinality(T) <= 1}}

\* the blocks of the archives of several blocks; the third has four
\* newlines in a row, one short of the delimiter
MainBlocks ==
    { "Al Bo 3:45 PM\nJan 5\nAmazon Elastic",
      "Al Bo 3:07 PM\nJan 5\nAmazon Elastic",
      "Eve 9:07 AM\nDec 31, 2023\n\n\n\nHi Gram",
      "al 3:45 PM\nJan 5",
      "Hello Al\nJan 5" }

\* what stands between two blocks: the delimiter, or eleven newlines (the
\* delimiter twice and one newline more)
Separators == {Delimiter, Delimiter \o Delimiter \o "\n"}

RECURSIVE JoinBlocks(_, _, _)
JoinBlocks(bs, seps, i) ==
    IF i > Len(bs) THEN "\n"
    ELSE bs[i] \o (IF i < Len(bs) THEN seps[i] ELSE "") \o JoinBlocks(bs, seps, i + 1)

ManyBlocks ==
    UNION {{JoinBlocks(bs, seps, 1) :
                bs \in [1..n -> MainBlocks], seps \in [1..(n - 1) -> Separators]} :
           n \in 0..MaxBlocks}

Archives == {b \o "\n" : b \in OneBlocks} \cup ManyBlocks

\* the iteration orders of COMPANIES the model lets a process have
Reverse(seq) == [i \in 1..Len(seq) |-> seq[Len(seq) + 1 - i]]
HashOrders == {CompanyList, Reverse(CompanyList)}

----------------------------------------------------------------------------
(* main                                                                    *)

\* raws after lines 201 to 203: split at the delimiter, strip, drop the empty
Blocks(text) ==
    With(split(text, Delimiter), LAMBDA parts :
        With([i \in 1..Len(parts) |-> strip(parts[i])], LAMBDA stripped :
            SelectSeq(stripped, LAMBDA raw : raw # "")))

InitWith(texts) ==
    /\ archive \in texts
    /\ raws = <<>>
    /\ idx = 1
    /\ out = <<>>
    /\ pc = "start"
    /\ error = ""
    /\ COMPANIES = {CompanyList[i] : i \in 1..Len(CompanyList)}
    /\ hashOrder \in HashOrders
    /\ now = [year |-> StartYear, month |-> 12]
    /\ run = 1
    /\ prevOut = <<>>

Init == InitWith(Archives)

ReadSplit ==
    /\ pc = "start"
    /\ raws' = Blocks(archive)
    /\ idx' = 1
    /\ pc' = "loop"
    /\ UNCHANGED <<archive, out, error, COMPANIES, hashOrder, now, run, prevOut>>

\* the loop body putting the line before those already printed
EmitRecordFirst ==
    /\ pc = "loop"
    /\ idx <= Len(raws)
    /\ \E parsed \in {as_dict(raws[idx], hashOrder, now)} :
          /\ parsed.exc = ""
          /\ out' = <<parsed.val>> \o out
    /\ idx' = idx + 1
    /\ UNCHANGED <<archive, raws, pc, error, COMPANIES, hashOrder, now, run, prevOut>>

\* one pass of the loop body that ends with print
EmitRecord ==
    /\ pc = "loop"
    /\ idx <= Len(raws)
    /\ \E parsed \in {as_dict(raws[idx], hashOrder, now)} :
          /\ parsed.exc = ""
          /\ out' = Append(out, parsed.val)
    /\ idx' = idx + 1
    /\ UNCHANGED <<archive, raws, pc, error, COMPANIES, hashOrder, now, run, prevOut>>

\* the loop body skipping a block whose as_dict raises
AbortSkipping ==
    /\ pc = "loop"
    /\ idx <= Len(raws)
    /\ \E parsed \in {as_dict(raws[idx], hashOrder, now)} : parsed.exc # ""
    /\ idx' = idx + 1
    /\ UNCHANGED <<archive, raws, out, pc, error, COMPANIES, hashOrder, now, run, prevOut>>

\* one pass of the loop body in which as_dict raises: nothing catches it
Abort ==
    /\ pc = "loop"
    /\ idx <= Len(raws)
    /\ \E parsed \in {as_dict(raws[idx], hashOrder, now)} :
          /\ parsed.exc # ""
          /\ error' = parsed.exc
    /\ pc' = "failed"
    /\ UNCHANGED <<archive, raws, idx, out, COMPANIES, hashOrder, now, run, prevOut>>

Finish ==
    /\ pc = "loop"
    /\ idx > Len(raws)
    /\ pc' = "done"
    /\ UNCHANGED <<archive, raws, idx, out, error, COMPANIES, hashOrder, now, run, prevOut>>

Next == ReadSplit \/ EmitRecord \/ Abort \/ Finish

Spec == Init /\ [][Next]_vars

----------------------------------------------------------------------------
(* The environment of a run: the clock, and the next process                *)

\* New Year passes
Tick ==
    /\ now.year < StartYear + MaxTicks
    /\ now' = [year |-> now.year + 1, month |-> 1]
    /\ UNCHANGED <<archive, raws, idx, out, pc, error, COMPANIES, hashOrder, run, prevOut>>

\* the program is started again on the same raw.txt: a new process, with
\* its own hash seed
Rerun ==
    /\ pc \in {"done", "failed"}
    /\ run < MaxRuns
    /\ run' = run + 1
    /\ prevOut' = out
    /\ hashOrder' \in HashOrders
    /\ raws' = <<>>
    /\ idx' = 1
    /\ out' = <<>>
    /\ pc' = "start"
    /\ error' = ""
    /\ UNCHANGED <<archive, COMPANIES, now>>

EnvArchives ==
    {JoinBlocks(bs, [i \in 1..(Len(bs) - 1) |-> Delimiter], 1) :
        bs \in UNION {[1..n -> MainBlocks] : n \in 1..MaxBlocks}}

InitEnv == InitWith(EnvArchives)

NextEnv == Next \/ Tick \/ Rerun

SpecEnv == InitEnv /\ [][NextEnv]_vars

----------------------------------------------------------------------------
(* Properties. Line i of out is the record of block i of raws: out[i] was  *)
(* appended when the loop stood at raws[i].                                *)

Emitted == 1..Len(out)

Min(S) == CHOOSE k \in S : \A j \in S : k <= j

\* the block has a line that as a whole is name text, one or two spaces and
\* an hour:minute AM/PM token
HasHeader(raw) ==
    LET lines == splitlines(raw)
    IN  \E i \in 1..Len(lines) : NameTimeCuts(lines[i]) # {}

HasDateToken(raw) == DateSearch(raw) # ""

\* the name text of the header is empty once cut at '(' and stripped, or
\* starts with a lower-case letter
BadName(raw) ==
    /\ HasHeader(raw)
    /\ LET name == CleanName(_name_time(raw).val[1])
       IN  name = "" \/ IsLower(Ch(name, 1))

\* the date parser rejects the time token of the header
RejectedTime(raw) ==
    /\ HasHeader(raw)
    /\ LET token == _name_time(raw).val[2]
           colon == Find(token, ":")
       IN  \/ int(Slice(token, 1, colon - 1)) > 12
           \/ int(Slice(token, colon + 1, Len(token) - 3)) > 59

\* the date parser rejects the date token
RejectedDate(raw, today) ==
    /\ HasDateToken(raw)
    /\ parse_date(DateSearch(raw), today).exc # ""

Fails(raw, today) ==
    \/ ~HasHeader(raw)
    \/ ~HasDateToken(raw)
    \/ BadName(raw)
    \/ RejectedTime(raw)
    \/ RejectedDate(raw, today)

NoSalaryToken(raw) == \A k \in 1..Len(raw) : ~SalaryMatchAt(raw, k).ok

(* C1, as stated: autogenerated is true without the nickname token, false  *)
(* with the nickname token and without the canary, and true with both.     *)
C1_Original ==
    \A i \in Emitted :
        LET raw == raws[i]
            r == out[i]
        IN  /\ ~In("Gram", raw) => r.autogenerated
            /\ In("Gram", raw) /\ ~In("OR 1 --", raw) => ~r.autogenerated
            /\ In("Gram", raw) /\ In("OR 1 --", raw) => r.autogenerated

(* C1, amended: autogenerated is false for a block with the nickname token *)
(* 'Gram', with or without the canary; true for a block with neither       *)
(* 'Gram' nor the first name 'Nikita'; and for a block with 'Nikita' and   *)
(* without 'Gram' it is true exactly when the canary 'OR 1 --' occurs.     *)
C1_Autogenerated ==
    \A i \in Emitted :
        LET raw == raws[i]
            r == out[i]
        IN  /\ In("Gram", raw) => ~r.autogenerated
            /\ ~In("Gram", raw) /\ ~In("Nikita", raw) => r.autogenerated
            /\ ~In("Gram", raw) /\ In("Nikita", raw)
                 => (r.autogenerated <=> In("OR 1 --", raw))

C1_Witness ==
    \E i \in Emitted :
        /\ In("Gram", raws[i])
        /\ In("OR 1 --", raws[i])
        /\ ~out[i].autogenerated

(* C2, as stated: the run aborts at the first block that has no header     *)
(* line or no date token: the records of the blocks before it are printed  *)
(* in order, none is printed for it or a later block, and the run fails.   *)
C2_Original ==
    LET bad == {k \in 1..Len(raws) : ~HasHeader(raws[k]) \/ ~HasDateToken(raws[k])}
    IN  bad # {} =>
            /\ Len(out) < Min(bad)
            /\ pc \in {"done", "failed"} =>
                  /\ pc = "failed"
                  /\ idx = Min(bad)
                  /\ Len(out) = Min(bad) - 1
                  /\ \A j \in 1..(Min(bad) - 1) :
                        Ok(out[j]) = as_dict(raws[j], hashOrder, now)

(* C2, amended: the run aborts at the first block whose extraction fails,  *)
(* that is the first block that has no header line, no date token, a       *)
(* header name that is empty or starts with a lower-case letter, or a time *)
(* or date token the date parser rejects: the records of the blocks before *)
(* it are printed in order, none is printed for it or a later block, and   *)
(* the run ends failed.                                                    *)
C2_AbortsAtFirstFailure ==
    LET bad == {k \in 1..Len(raws) : Fails(raws[k], now)}
    IN  bad # {} =>
            /\ Len(out) < Min(bad)
            /\ pc \in {"done", "failed"} =>
                  /\ pc = "failed"
                  /\ error # ""
                  /\ idx = Min(bad)
                  /\ Len(out) = Min(bad) - 1
                  /\ \A j \in 1..(Min(bad) - 1) :
                        Ok(out[j]) = as_dict(raws[j], hashOrder, now)

C2_Witness ==
    /\ pc = "failed"
    /\ idx = 2
    /\ Len(raws) = 2
    /\ Len(out) = 1
    /\ Ok(out[1]) = as_dict(raws[1], hashOrder, now)
    /\ BadName(raws[2])

(* C3: a run in which no block fails prints one line per chunk of the      *)
(* archive that is not empty once stripped, line i being the record of     *)
(* chunk i, with exactly the sixteen keys.                                 *)
C3_OneLinePerBlock ==
    pc = "done" =>
        LET chunks == split(archive, Delimiter)
            kept == {k \in 1..Len(chunks) : strip(chunks[k]) # ""}
        IN  /\ Len(out) = Cardinality(kept)
            /\ \A i \in Emitted :
                  \E k \in kept :
                      /\ Cardinality({j \in kept : j <= k}) = i
                      /\ Ok(out[i]) = as_dict(strip(chunks[k]), hashOrder, now)
                      /\ DOMAIN out[i] = Keys

C3_Witness ==
    /\ pc = "done"
    /\ Len(out) = 2
    /\ out[1] # out[2]
    /\ In("\n\n\n\n", raws[2])
    /\ Len(split(archive, Delimiter)) = 3

(* C4, as stated: extraction fails only for a block with no header line or *)
(* no date token; every other field yields its default when its pattern    *)
(* does not match.                                                         *)
Defaults(raw, r) ==
    LET low == lower(raw)
        cs == Chars(raw)
    IN
    /\ ~In("· ", raw) => r.sender_title = ""
    /\ ~In("she/", low) /\ ~In("he/", low) /\ ~In("they/", low)
          => r.sender_pronouns = ""
    /\ ~In("Gram", raw) /\ ~In("Nikita", raw) => ~r.has_name
    /\ ~In("Gram", raw) => ~r.read_cv
    /\ NoSalaryToken(raw) => r.salary_low = "" /\ r.salary_high = ""
    /\ cs \cap EMOJI_DATA = {} => ~r.has_emoji
    /\ ~In("@", raw) => ~r.has_email
    /\ ~In("https://", raw) /\ ~In("www.", raw) => ~r.has_url
    /\ (\A c \in COMPANIES : Ch(c, 1) \in cs => ~In(c, raw)) => r.company = ""
    /\ ~In("python", low) => ~r.python

C4_Original ==
    /\ pc = "failed" => ~HasHeader(raws[idx]) \/ ~HasDateToken(raws[idx])
    /\ \A i \in Emitted : Defaults(raws[i], out[i])

(* C4, amended: extraction of a block fails exactly when the block has no  *)
(* header line, no date token, a header name that is empty or starts with  *)
(* a lower-case letter, or a time or date token the date parser rejects;   *)
(* every other block yields a record. The other fields never cause a       *)
(* failure: each yields its default (empty string, false, empty pair) when *)
(* its pattern does not match, autogenerated being true when neither name  *)
(* token occurs.                                                           *)
C4_FailureCauses ==
    /\ pc = "failed" => Fails(raws[idx], now)
    /\ \A i \in Emitted :
          /\ ~Fails(raws[i], now)
          /\ Defaults(raws[i], out[i])
          /\ ~In("Gram", raws[i]) /\ ~In("Nikita", raws[i]) => out[i].autogenerated

C4_Witness ==
    /\ pc = "failed"
    /\ HasHeader(raws[idx])
    /\ HasDateToken(raws[idx])
    /\ RejectedTime(raws[idx])
    /\ error = "ParserError"

(* C5, as stated: the sender_name of a record is not empty and starts with *)
(* an upper-case letter; a block with no header line gives no record and   *)
(* the run fails.                                                          *)
C5_Original ==
    /\ \A i \in Emitted :
          /\ HasHeader(raws[i])
          /\ out[i].sender_name # ""
          /\ IsUpper(Ch(out[i].sender_name, 1))
    /\ \A k \in 1..Len(raws) :
          ~HasHeader(raws[k]) => Len(out) < k /\ pc # "done"

(* C5, amended: the sender_name of a record is not empty and its first     *)
(* character is one that capitalization leaves unchanged (an upper-case    *)
(* letter, a digit or another caseless character, never a lower-case       *)
(* letter); a block with no header line gives no record and the run fails. *)
C5_SenderName ==
    /\ \A i \in Emitted :
          /\ HasHeader(raws[i])
          /\ out[i].sender_name # ""
          /\ ~IsLower(Ch(out[i].sender_name, 1))
    /\ \A k \in 1..Len(raws) :
          ~HasHeader(raws[k]) => Len(out) < k /\ pc # "done"

C5_Witness ==
    \E i \in Emitted :
        /\ HasHeader(raws[i])
        /\ IsDigit(Ch(out[i].sender_name, 1))

(* C6: the salary pair is ('', '') when no salary token occurs, ('', n)    *)
(* when every match carries the same number n, and otherwise the numbers   *)
(* of the first two matches in document order, not sorted.                 *)
C6_SalaryPair ==
    \A i \in Emitted :
        LET raw == raws[i]
            pair == <<out[i].salary_low, out[i].salary_high>>
            m == SalaryMatches(raw, 1)
        IN  /\ NoSalaryToken(raw) => pair = <<"", "">>
            /\ ~NoSalaryToken(raw) => m # <<>>
            /\ m # <<>> /\ (\A j \in 1..Len(m) : m[j] = m[1]) => pair = <<"", m[1]>>
            /\ (\E j \in 1..Len(m) : m[j] # m[1]) => pair = <<m[1], m[2]>>

C6_Witness ==
    \E i \in Emitted :
        /\ out[i].salary_low = "120"
        /\ out[i].salary_high = "80"
        /\ Find(raws[i], "120,000") < Find(raws[i], "80k")

(* C8: sender_pronouns is the first of she, he, they whose marker 'she/',  *)
(* 'he/', 'they/' occurs in the lower-cased block, '' when none occurs.    *)
C8_Pronouns ==
    \A i \in Emitted :
        LET low == lower(raws[i])
            p == out[i].sender_pronouns
        IN  /\ p \in {"she", "he", "they", ""}
            /\ p = "she" <=> In("she/", low)
            /\ p = "he" <=> ~In("she/", low) /\ In("he/", low)
            /\ p = "they" <=> ~In("she/", low) /\ ~In("he/", low) /\ In("they/", low)

C8_Witness ==
    \E i \in Emitted :
        /\ In("She/Her", raws[i])
        /\ In("he/him", raws[i])
        /\ out[i].sender_pronouns = "she"

(* C9, as stated: the time string is the hour in 24-hour form, a colon and *)
(* the field the day-of-month format code gives.                           *)
C9_Original ==
    \A i \in Emitted :
        out[i].time = Pad2(time(raws[i]).val.hour) \o ":" \o Pad2(time(raws[i]).val.day)

(* C9, amended: the time string is the hour in 24-hour form, a colon and   *)
(* the same hour in 12-hour form (the format code of the second field is   *)
(* the 12-hour hour code, not the minutes code and not the day-of-month    *)
(* code); the minutes of the header do not appear, so two blocks whose     *)
(* header times differ only in the minutes give the same time string.      *)
C9_TimeString ==
    /\ \A i \in Emitted :
          LET h == time(raws[i]).val.hour
          IN  out[i].time = Pad2(h) \o ":" \o Pad2(IF h % 12 = 0 THEN 12 ELSE h % 12)
    /\ \A i, j \in Emitted :
          time(raws[i]).val.hour = time(raws[j]).val.hour => out[i].time = out[j].time

C9_Witness ==
    \E i, j \in Emitted :
        /\ time(raws[i]).val.hour = time(raws[j]).val.hour
        /\ time(raws[i]).val.minute = 45
        /\ time(raws[j]).val.minute = 7
        /\ out[i].time = "15:03"
        /\ out[j].time = "15:03"

(* C10: in every record read_cv implies has_name, read_cv and              *)
(* autogenerated are not both true (a block with 'Gram' is never           *)
(* autogenerated, canary or not), and has_name false implies               *)
(* autogenerated.                                                          *)
C10_Flags ==
    \A i \in Emitted :
        /\ out[i].read_cv => out[i].has_name
        /\ ~(out[i].read_cv /\ out[i].autogenerated)
        /\ In("Gram", raws[i]) => ~out[i].autogenerated
        /\ ~out[i].has_name => out[i].autogenerated

C10_Witness ==
    \E i \in Emitted :
        /\ out[i].read_cv
        /\ out[i].has_name
        /\ ~In("Nikita", raws[i])
        /\ ~out[i].autogenerated

----------------------------------------------------------------------------
(* Properties of the runs of several processes (SpecEnv)                    *)

(* C7: extracting the same block twice gives the same record in all        *)
(* sixteen fields, in this run or in an earlier one, whatever was          *)
(* extracted in between, and COMPANIES is never changed.                   *)
C7_Deterministic ==
    LET blocks == Blocks(archive)
    IN  /\ \A i, j \in Emitted : blocks[i] = blocks[j] => out[i] = out[j]
        /\ \A i \in Emitted : \A j \in 1..Len(prevOut) :
              blocks[i] = blocks[j] => out[i] = prevOut[j]
        /\ COMPANIES = {CompanyList[i] : i \in 1..Len(CompanyList)}

====
